---- MODULE Spec2Model ----
(***************************************************************************)
(* Model of the Universe of src/src/lib.rs: a wrapping Game of Life grid   *)
(* held as width, height and a row-major vector of cells.                  *)
(* Vectors are 1-based sequences here, so the cell at vector index idx of  *)
(* the source is cells[idx + 1].                                           *)
(***************************************************************************)
EXTENDS Integers, Sequences, FiniteSets, TLC

\* enum Cell { Alive = 1, Dead = 0 }
Alive == 1
Dead == 0

\* let width = 64; let height = 64; in Universe::new
DefaultWidth == 64
DefaultHeight == 64

\* The characters fmt writes: U+25FB for a Dead cell, U+25FC for any other,
\* and a line feed after each chunk.  Each is one character of the text.
DeadSymbol == "WHITE MEDIUM SQUARE"
AliveSymbol == "BLACK MEDIUM SQUARE"
Newline == "LINE FEED"

\* Bounds of the exploration.  All values stay far below 2^32, so the u32
\* arithmetic of the source never wraps inside these bounds.
MaxDim == 4           \* set_width / set_height are called with 0..MaxDim
MaxCoord == 1         \* set_cells coordinates are drawn from 0..MaxCoord
MaxList == 2          \* set_cells lists have at most MaxList pairs
MaxTicks == 2         \* tick calls explored after construction or a resize
MaxCells == 64        \* a larger universe gets ticks or a set_cells call, not both
MaxScenarioDim == 6   \* the scenario runs resize to 3..MaxScenarioDim

VARIABLES
    width,      \* Universe.width
    height,     \* Universe.height
    cells,      \* Universe.cells
    panicked,   \* TRUE once an operation has panicked (the call never returns)
    last,       \* name of the last operation called
    pre,        \* the universe as it was when the last operation was called;
                \* a resize drops the old vector unread, and for it pre keeps
                \* the old dimensions with an empty vector
    pre_alive,  \* TRUE iff some cell was Alive when the last operation was called
    arg_n,      \* argument of the last set_width / set_height call
    arg_list,   \* argument of the last set_cells call
    placed,     \* TRUE iff set_cells was called since construction or the last
                \* resize; one set_cells call is explored per resize
    ntick,      \* tick calls since construction or the last resize
    out         \* what the last operation returned, << >> if it returns nothing

vars == <<width, height, cells, panicked, last, pre, pre_alive, arg_n, arg_list,
          placed, ntick, out>>

Universe(w, h, cs) == [width |-> w, height |-> h, cells |-> cs]

----------------------------------------------------------------------------
\* Pure helpers of impl Universe

\* fn get_index(&self, row, column) -> usize
get_index(w, row, column) == (row * w) + column

\* (0..n).map(|_i| Cell::Dead).collect()
dead_cells(n) == [i \in 1..n |-> Dead]

AllDead(cs) == \A i \in 1..Len(cs) : cs[i] = Dead

\* Variant of seed_cells with && in place of ||
seed_cells_both(n) ==
    [k \in 1..n |-> IF (k - 1) % 2 = 0 /\ (k - 1) % 7 = 0 THEN Alive ELSE Dead]

\* The seed of Universe::new: index i is alive iff i % 2 == 0 || i % 7 == 0
seed_cells(n) ==
    [k \in 1..n |-> IF (k - 1) % 2 = 0 \/ (k - 1) % 7 = 0 THEN Alive ELSE Dead]

\* Variant of neighbour_value without the continue for the (0, 0) pair
neighbour_value_no_skip(w, h, cs, row, column, delta_row, delta_col) ==
    LET neighbour_row == (row + delta_col) % h
        neighbour_column == (column + delta_row) % w
        idx == get_index(w, neighbour_row, neighbour_column)
    IN  cs[idx + 1]

\* Body of the two nested loops of live_neighbour_count for one pair of
\* deltas: the value added to count (nothing for the skipped (0, 0) pair).
\* The source adds delta_col to the row and delta_row to the column.
neighbour_value(w, h, cs, row, column, delta_row, delta_col) ==
    IF delta_row = 0 /\ delta_col = 0
    THEN 0
    ELSE LET neighbour_row == (row + delta_col) % h
             neighbour_column == (column + delta_row) % w
             idx == get_index(w, neighbour_row, neighbour_column)
         IN  cs[idx + 1]

\* Variant of live_neighbour_count whose deltas are [1, 0, 1]: the wrapped
\* -1 is missing, so the neighbours on one side are counted twice
live_neighbour_count_one_sided(w, h, cs, row, column) ==
    LET delta_rows == <<1, 0, 1>>
        delta_cols == <<1, 0, 1>>
        V(i, j) == neighbour_value(w, h, cs, row, column, delta_rows[i], delta_cols[j])
    IN  V(1, 1) + V(1, 2) + V(1, 3)
      + V(2, 1) + V(2, 2) + V(2, 3)
      + V(3, 1) + V(3, 2) + V(3, 3)

\* fn live_neighbour_count(&self, row, column) -> u8, for width, height >= 1
live_neighbour_count(w, h, cs, row, column) ==
    LET delta_rows == <<h - 1, 0, 1>>
        delta_cols == <<w - 1, 0, 1>>
        V(i, j) == neighbour_value(w, h, cs, row, column, delta_rows[i], delta_cols[j])
    IN  V(1, 1) + V(1, 2) + V(1, 3)
      + V(2, 1) + V(2, 2) + V(2, 3)
      + V(3, 1) + V(3, 2) + V(3, 3)

\* Variant of next_cell whose rule 4 matches (Cell::Dead, 0) instead of
\* (Cell::Dead, 3)
next_cell_spontaneous(cell, live_neighbours) ==
    IF cell = Alive /\ live_neighbours < 2 THEN Dead
    ELSE IF cell = Alive /\ (live_neighbours = 2 \/ live_neighbours = 3) THEN Alive
    ELSE IF cell = Alive /\ live_neighbours > 3 THEN Dead
    ELSE IF cell = Dead /\ live_neighbours = 0 THEN Alive
    ELSE cell

\* Variant of next_cell without rule 1: a live cell with fewer than two live
\* neighbours is kept.
next_cell_no_underpopulation(cell, live_neighbours) ==
    IF cell = Alive /\ live_neighbours > 3 THEN Dead
    ELSE IF cell = Dead /\ live_neighbours = 3 THEN Alive
    ELSE cell

\* The match of tick: the next value of a cell with live_neighbours neighbours
next_cell(cell, live_neighbours) ==
    IF cell = Alive /\ live_neighbours < 2 THEN Dead
    ELSE IF cell = Alive /\ (live_neighbours = 2 \/ live_neighbours = 3) THEN Alive
    ELSE IF cell = Alive /\ live_neighbours > 3 THEN Dead
    ELSE IF cell = Dead /\ live_neighbours = 3 THEN Alive
    ELSE cell

\* The two loops of tick walk their ranges in increasing order.  A range
\* lo..hi-1 is walked as its lower half followed by its upper half, which
\* visits the same indices in the same order as the for loop and keeps the
\* evaluation shallow.  The tests on Len only make the evaluation of the
\* buffer eager; a write never changes the length.

\* Variant of tick_cols that reads the cell and counts the neighbours in the
\* buffer being written instead of self.cells (an in-place update).
RECURSIVE tick_cols_in_place(_, _, _, _, _, _, _)
tick_cols_in_place(w, h, cs, next, row, lo, hi) ==
    IF hi <= lo
    THEN next
    ELSE IF hi = lo + 1
    THEN LET idx == get_index(w, row, lo)
             cell == next[idx + 1]
             live_neighbours == live_neighbour_count(w, h, next, row, lo)
         IN  [next EXCEPT ![idx + 1] = next_cell(cell, live_neighbours)]
    ELSE LET mid == (lo + hi) \div 2
             written == tick_cols_in_place(w, h, cs, next, row, lo, mid)
         IN  IF Len(written) = Len(next)
             THEN tick_cols_in_place(w, h, cs, written, row, mid, hi)
             ELSE written

\* Inner loop of tick: for col in lo..hi of row row (0..self.width in all).
\* cs is self.cells (read only), next the buffer being written.
RECURSIVE tick_cols(_, _, _, _, _, _, _)
tick_cols(w, h, cs, next, row, lo, hi) ==
    IF hi <= lo
    THEN next
    ELSE IF hi = lo + 1
    THEN LET idx == get_index(w, row, lo)
             cell == cs[idx + 1]
             live_neighbours == live_neighbour_count(w, h, cs, row, lo)
         IN  [next EXCEPT ![idx + 1] = next_cell(cell, live_neighbours)]
    ELSE LET mid == (lo + hi) \div 2
             written == tick_cols(w, h, cs, next, row, lo, mid)
         IN  IF Len(written) = Len(next)
             THEN tick_cols(w, h, cs, written, row, mid, hi)
             ELSE written

\* Outer loop of tick: for row in lo..hi (0..self.height in all)
RECURSIVE tick_rows(_, _, _, _, _, _)
tick_rows(w, h, cs, next, lo, hi) ==
    IF hi <= lo
    THEN next
    ELSE IF hi = lo + 1
    THEN tick_cols(w, h, cs, next, lo, 0, w)
    ELSE LET mid == (lo + hi) \div 2
             written == tick_rows(w, h, cs, next, lo, mid)
         IN  IF Len(written) = Len(next)
             THEN tick_rows(w, h, cs, written, mid, hi)
             ELSE written

\* live_neighbour_count panics when width or height is 0: height - 1 or
\* width - 1 overflows (a panic in a debug build, a wrap in a release build)
\* and the remainder by the zero dimension panics in every build.  It also
\* panics when it indexes the vector at idx >= len.
live_neighbour_count_panics(w, h, cs, row, column) ==
    \/ w = 0
    \/ h = 0
    \/ \E delta_row \in {h - 1, 0, 1}, delta_col \in {w - 1, 0, 1} :
          /\ ~(delta_row = 0 /\ delta_col = 0)
          /\ get_index(w, (row + delta_col) % h, (column + delta_row) % w) >= Len(cs)

\* Variant of tick_panics whose loops include the upper ends of the ranges
\* (0..=self.height, 0..=self.width)
tick_panics_inclusive(w, h, cs) ==
    \E row \in 0..h, col \in 0..w :
        \/ get_index(w, row, col) >= Len(cs)
        \/ live_neighbour_count_panics(w, h, cs, row, col)

\* tick panics iff some iteration of its loops (row in 0..self.height, col in
\* 0..self.width) indexes self.cells at idx >= len or calls a
\* live_neighbour_count that panics; self.cells is then left as it was.
tick_panics(w, h, cs) ==
    \E row \in 0..(h - 1), col \in 0..(w - 1) :
        \/ get_index(w, row, col) >= Len(cs)
        \/ live_neighbour_count_panics(w, h, cs, row, col)

\* The value tick assigns to self.cells: next starts as self.cells.clone()
tick_cells(w, h, cs) == tick_rows(w, h, cs, cs, 0, h)

\* Variant of set_cells_loop that passes (col, row) to get_index
RECURSIVE set_cells_loop_swapped(_, _, _)
set_cells_loop_swapped(w, cs, list) ==
    IF list = << >>
    THEN [cells |-> cs, panicked |-> FALSE]
    ELSE LET idx == get_index(w, list[1][2], list[1][1])
         IN  IF idx >= Len(cs)
             THEN [cells |-> cs, panicked |-> TRUE]
             ELSE set_cells_loop_swapped(w, [cs EXCEPT ![idx + 1] = Alive], Tail(list))

\* The loop of set_cells over the list of (row, col) pairs.  Indexing the
\* vector at idx >= len panics; the cells written before stay written.
RECURSIVE set_cells_loop(_, _, _)
set_cells_loop(w, cs, list) ==
    IF list = << >>
    THEN [cells |-> cs, panicked |-> FALSE]
    ELSE LET idx == get_index(w, list[1][1], list[1][2])
         IN  IF idx >= Len(cs)
             THEN [cells |-> cs, panicked |-> TRUE]
             ELSE set_cells_loop(w, [cs EXCEPT ![idx + 1] = Alive], Tail(list))

\* let symbol = if cell == Cell::Dead { U+25FB } else { U+25FC }
symbol_swapped(cell) == IF cell = Dead THEN AliveSymbol ELSE DeadSymbol

symbol(cell) == IF cell = Dead THEN DeadSymbol ELSE AliveSymbol

\* cells.chunks(w) for w > 0: the number of chunks of a vector of n cells and
\* the k-th chunk (k from 0); the last chunk may be shorter than w
chunk_count(w, n) == (n + w - 1) \div w

chunk(w, cs, k) ==
    SubSeq(cs, k * w + 1, IF (k + 1) * w < Len(cs) THEN (k + 1) * w ELSE Len(cs))

\* Body of the outer loop of fmt: the symbols of one chunk, then "\n"
fmt_line(line) == [j \in 1..Len(line) |-> symbol(line[j])] \o <<Newline>>

\* Outer loop of fmt over the chunks lo..hi-1, in order (walked by halves as
\* the loops of tick are)
RECURSIVE fmt_lines(_, _, _, _)
fmt_lines(w, cs, lo, hi) ==
    IF hi <= lo
    THEN << >>
    ELSE IF hi = lo + 1
    THEN fmt_line(chunk(w, cs, lo))
    ELSE LET mid == (lo + hi) \div 2
         IN  fmt_lines(w, cs, lo, mid) \o fmt_lines(w, cs, mid, hi)

\* slice::chunks panics when the chunk size is 0
fmt_panics(w) == w = 0

\* The text written by Display::fmt, as the sequence of its characters
fmt(w, cs) == fmt_lines(w, cs, 0, chunk_count(w, Len(cs)))

----------------------------------------------------------------------------
\* Inputs

Dims == 0..MaxDim
Coords == (0..MaxCoord) \X (0..MaxCoord)
CoordLists == UNION {[1..n -> Coords] : n \in 0..MaxList}

----------------------------------------------------------------------------
\* Operations

\* pub fn new() -> Universe
new ==
    /\ width = DefaultWidth
    /\ height = DefaultHeight
    /\ cells = seed_cells(DefaultWidth * DefaultHeight)
    /\ panicked = FALSE
    /\ last = "new"
    /\ pre = Universe(0, 0, << >>)
    /\ pre_alive = FALSE
    /\ arg_n = 0
    /\ arg_list = << >>
    /\ placed = FALSE
    /\ ntick = 0
    /\ out = << >>

\* Variant of set_width that sets both dimensions to the new width
set_width_both(w) ==
    /\ ~panicked
    /\ width' = w
    /\ height' = w
    /\ cells' = dead_cells(w * w)
    /\ UNCHANGED panicked
    /\ last' = "set_width"
    /\ pre' = Universe(width, height, << >>)
    /\ pre_alive' = ~AllDead(cells)
    /\ arg_n' = w
    /\ arg_list' = << >>
    /\ placed' = FALSE
    /\ ntick' = 0
    /\ out' = << >>

\* Variant of set_width that leaves the cells alone when the width is the
\* one the universe already has.
set_width_keep(w) ==
    /\ ~panicked
    /\ width' = w
    /\ cells' = IF w = width THEN cells ELSE dead_cells(w * height)
    /\ UNCHANGED <<height, panicked>>
    /\ last' = "set_width"
    /\ pre' = Universe(width, height, << >>)
    /\ pre_alive' = ~AllDead(cells)
    /\ arg_n' = w
    /\ arg_list' = << >>
    /\ placed' = FALSE
    /\ ntick' = 0
    /\ out' = << >>

\* pub fn set_width(&mut self, width: u32)
set_width(w) ==
    /\ ~panicked
    /\ width' = w
    /\ cells' = dead_cells(w * height)
    /\ UNCHANGED <<height, panicked>>
    /\ last' = "set_width"
    /\ pre' = Universe(width, height, << >>)
    /\ pre_alive' = ~AllDead(cells)
    /\ arg_n' = w
    /\ arg_list' = << >>
    /\ placed' = FALSE
    /\ ntick' = 0
    /\ out' = << >>

\* Variant of set_height that sizes the new buffer with the old height
set_height_stale(h) ==
    /\ ~panicked
    /\ height' = h
    /\ cells' = dead_cells(width * height)
    /\ UNCHANGED <<width, panicked>>
    /\ last' = "set_height"
    /\ pre' = Universe(width, height, << >>)
    /\ pre_alive' = ~AllDead(cells)
    /\ arg_n' = h
    /\ arg_list' = << >>
    /\ placed' = FALSE
    /\ ntick' = 0
    /\ out' = << >>

\* pub fn set_height(&mut self, height: u32)
set_height(h) ==
    /\ ~panicked
    /\ height' = h
    /\ cells' = dead_cells(width * h)
    /\ UNCHANGED <<width, panicked>>
    /\ last' = "set_height"
    /\ pre' = Universe(width, height, << >>)
    /\ pre_alive' = ~AllDead(cells)
    /\ arg_n' = h
    /\ arg_list' = << >>
    /\ placed' = FALSE
    /\ ntick' = 0
    /\ out' = << >>

\* pub fn set_cells(&mut self, cells: &[(u32, u32)])
set_cells(list) ==
    /\ ~panicked
    /\ ~placed
    /\ (ntick = 0 \/ Len(cells) <= MaxCells)
    /\ LET r == set_cells_loop(width, cells, list)
       IN  /\ cells' = r.cells
           /\ panicked' = r.panicked
    /\ UNCHANGED <<width, height>>
    /\ last' = "set_cells"
    /\ pre' = Universe(width, height, cells)
    /\ pre_alive' = ~AllDead(cells)
    /\ arg_n' = 0
    /\ arg_list' = list
    /\ placed' = TRUE
    /\ UNCHANGED ntick
    /\ out' = << >>

\* pub fn tick(&mut self)
tick ==
    /\ ~panicked
    /\ ntick < MaxTicks
    /\ (~placed \/ Len(cells) <= MaxCells)
    /\ IF tick_panics(width, height, cells)
       THEN panicked' = TRUE /\ UNCHANGED cells
       ELSE panicked' = FALSE /\ cells' = tick_cells(width, height, cells)
    /\ UNCHANGED <<width, height>>
    /\ last' = "tick"
    /\ pre' = Universe(width, height, cells)
    /\ pre_alive' = ~AllDead(cells)
    /\ arg_n' = 0
    /\ arg_list' = << >>
    /\ ntick' = ntick + 1
    /\ UNCHANGED placed
    /\ out' = << >>

\* pub fn render(&self) -> String: self.to_string(), that is Display::fmt
render ==
    /\ ~panicked
    /\ IF fmt_panics(width)
       THEN panicked' = TRUE /\ out' = << >>
       ELSE panicked' = FALSE /\ out' = fmt(width, cells)
    /\ UNCHANGED <<width, height, cells, placed, ntick>>
    /\ last' = "render"
    /\ pre' = Universe(width, height, cells)
    /\ pre_alive' = ~AllDead(cells)
    /\ arg_n' = 0
    /\ arg_list' = << >>

\* pub fn width(&self) -> u32
get_width ==
    /\ ~panicked
    /\ out' = width
    /\ UNCHANGED <<width, height, cells, panicked, placed, ntick>>
    /\ last' = "width"
    /\ pre' = Universe(width, height, cells)
    /\ pre_alive' = ~AllDead(cells)
    /\ arg_n' = 0
    /\ arg_list' = << >>

\* pub fn height(&self) -> u32
get_height ==
    /\ ~panicked
    /\ out' = height
    /\ UNCHANGED <<width, height, cells, panicked, placed, ntick>>
    /\ last' = "height"
    /\ pre' = Universe(width, height, cells)
    /\ pre_alive' = ~AllDead(cells)
    /\ arg_n' = 0
    /\ arg_list' = << >>

\* pub fn get_cells(&self) -> &[Cell]
get_cells ==
    /\ ~panicked
    /\ out' = cells
    /\ UNCHANGED <<width, height, cells, panicked, placed, ntick>>
    /\ last' = "get_cells"
    /\ pre' = Universe(width, height, cells)
    /\ pre_alive' = ~AllDead(cells)
    /\ arg_n' = 0
    /\ arg_list' = << >>

Init == new

Next ==
    \/ \E w \in Dims : set_width(w)
    \/ \E h \in Dims : set_height(h)
    \/ \E list \in CoordLists : set_cells(list)
    \/ tick

Spec == Init /\ [][Next]_vars

----------------------------------------------------------------------------
\* The scenario runs: the same operations, called with the literal patterns
\* (a single cell, a 2x2 block, a horizontal blinker) on grids of 3 to
\* MaxScenarioDim columns and rows (universes of at most MaxCells cells).

ScenarioDims == 3..MaxScenarioDim

Min(a, b) == IF a < b THEN a ELSE b

single_list(r, c) == << <<r, c>> >>

block_list(w, h, r, c) ==
    << <<r, c>>, <<r, (c + 1) % w>>, <<(r + 1) % h, c>>, <<(r + 1) % h, (c + 1) % w>> >>

blinker_list(r, c) == << <<r, c - 1>>, <<r, c>>, <<r, c + 1>> >>

ScenarioLists(w, h) ==
    LET rows == 0..(Min(h, MaxScenarioDim) - 1)
        cols == 0..(Min(w, MaxScenarioDim) - 1)
    IN  {single_list(r, c) : r \in rows, c \in cols}
        \cup {block_list(w, h, r, c) : r \in rows, c \in cols}
        \cup {blinker_list(r, c) : r \in rows \ {0, h - 1}, c \in cols \ {0, w - 1}}

\* A scenario resizes first and then places one pattern and ticks.
Fresh == ~placed /\ ntick = 0

NextScenario ==
    \/ \E w \in ScenarioDims : Fresh /\ set_width(w)
    \/ \E h \in ScenarioDims : Fresh /\ set_height(h)
    \/ \E list \in ScenarioLists(width, height) :
          Len(cells) <= MaxCells /\ set_cells(list)
    \/ tick

SpecScenario == Init /\ [][NextScenario]_vars

----------------------------------------------------------------------------
\* The view runs: every public operation, the accessors and render included,
\* on universes of 0 to MaxDim columns and rows.  set_cells is called on
\* universes of at most MaxCells cells, with no pair, one in-range pair or
\* every cell of the universe.

full_list(w, h) == [k \in 1..(w * h) |-> <<(k - 1) \div w, (k - 1) % w>>]

ViewLists(w, h) ==
    {<< >>, full_list(Min(w, MaxDim + 1), Min(h, MaxDim + 1))}
        \cup {single_list(r, c) : r \in 0..(Min(h, MaxDim + 1) - 1),
                                  c \in 0..(Min(w, MaxDim + 1) - 1)}

NextView ==
    \/ \E w \in Dims : set_width(w)
    \/ \E h \in Dims : set_height(h)
    \/ \E list \in ViewLists(width, height) :
          Len(cells) <= MaxCells /\ set_cells(list)
    \/ tick
    \/ render
    \/ get_width
    \/ get_height
    \/ get_cells

SpecView == Init /\ [][NextView]_vars

----------------------------------------------------------------------------
\* Vocabulary of the properties

AliveSet(cs) == {i \in 1..Len(cs) : cs[i] = Alive}

\* every pair of the list names a cell of a w x h universe
InRange(list, w, h) ==
    \A k \in 1..Len(list) : list[k][1] < h /\ list[k][2] < w

\* the vector indices row * w + column of the in-range pairs of the list
NamedIndices(list, w, h) ==
    {list[k][1] * w + list[k][2] :
        k \in {j \in 1..Len(list) : list[j][1] < h /\ list[j][2] < w}}

\* Conway's rule, as a predicate on the old value and the neighbour count
ConwayAlive(was, n) ==
    \/ was = Alive /\ (n = 2 \/ n = 3)
    \/ was = Dead /\ n = 3

\* the number of Alive cells among the 8 toroidal neighbours of (row, column)
Offsets == ({-1, 0, 1} \X {-1, 0, 1}) \ {<<0, 0>>}

ToroidalCount(w, h, cs, row, column) ==
    Cardinality({d \in Offsets :
        cs[((row + d[1] + h) % h) * w + ((column + d[2] + w) % w) + 1] = Alive})

\* the set of 1-based positions of the cells (r, c) of the list in a grid of
\* width w
Positions(list, w) == {list[k][1] * w + list[k][2] + 1 : k \in 1..Len(list)}

vertical_list(r, c) == << <<r - 1, c>>, <<r, c>>, <<r + 1, c>> >>

\* the universe u is all Dead but for a horizontal blinker centred at (r, c)
IsBlinkerAt(u, r, c) == AliveSet(u.cells) = Positions(blinker_list(r, c), u.width)

IsBlinker(u) ==
    /\ u.width >= 5 /\ u.height >= 5
    /\ Cardinality(AliveSet(u.cells)) = 3
    /\ \E r \in 1..(u.height - 2), c \in 1..(u.width - 2) : IsBlinkerAt(u, r, c)

\* the universe u is all Dead but for a 2x2 block
IsBlock(u) ==
    /\ u.width >= 4 /\ u.height >= 4
    /\ Cardinality(AliveSet(u.cells)) = 4
    /\ \E r \in 0..(u.height - 1), c \in 0..(u.width - 1) :
          AliveSet(u.cells) = Positions(block_list(u.width, u.height, r, c), u.width)

\* the universe u has exactly one Alive cell
IsSingle(u) ==
    /\ u.width >= 3 /\ u.height >= 3
    /\ Cardinality(AliveSet(u.cells)) = 1

----------------------------------------------------------------------------
\* Properties

\* C1: in every reachable state the length of the cell buffer equals
\* width * height.
C1_LenIsWidthTimesHeight == Len(cells) = width * height

C1_Witness ==
    /\ last = "set_height"
    /\ width # height /\ width > 0 /\ height > 0
    /\ pre.height # height
    /\ pre.width * pre.height # Len(cells)

\* C2: after tick, every cell is Alive iff Conway's rule says so for its
\* value before the tick and its live_neighbour_count before the tick; no
\* value of the new generation enters the computation.
C2_TickAppliesConway ==
    last = "tick" =>
        /\ Len(cells) = Len(pre.cells)
        /\ \A row \in 0..(height - 1), column \in 0..(width - 1) :
              LET i == row * width + column + 1
                  n == live_neighbour_count(pre.width, pre.height, pre.cells, row, column)
              IN  /\ cells[i] \in {Alive, Dead}
                  /\ cells[i] = Alive <=> ConwayAlive(pre.cells[i], n)

\* a tick in which cells were born, died and survived
C2_Witness ==
    /\ last = "tick"
    /\ \E i \in 1..Len(cells) : pre.cells[i] = Dead /\ cells[i] = Alive
    /\ \E i \in 1..Len(cells) : pre.cells[i] = Alive /\ cells[i] = Dead
    /\ \E i \in 1..Len(cells) : pre.cells[i] = Alive /\ cells[i] = Alive

\* C3: in every universe of width >= 3 and height >= 3, square or not,
\* live_neighbour_count(row, column) is the number of Alive cells among the
\* 8 toroidal neighbours, rows wrapped modulo height and columns modulo width.
C3_CountIsToroidal ==
    (width >= 3 /\ height >= 3) =>
        \A row \in 0..(height - 1), column \in 0..(width - 1) :
            live_neighbour_count(width, height, cells, row, column)
                = ToroidalCount(width, height, cells, row, column)

\* C4: after set_width or set_height every cell is Dead, whatever the cells
\* and dimensions were, also when the new dimension equals the old one.
C4_ResizeClears ==
    last \in {"set_width", "set_height"} => AllDead(cells)

\* a resize to the same width of a universe that had Alive cells
C4_Witness ==
    /\ last = "set_width"
    /\ arg_n = pre.width
    /\ Len(cells) > 0
    /\ pre_alive

\* C5: a horizontal blinker on an otherwise Dead grid of width >= 5 and
\* height >= 5 is the vertical line after one tick and the horizontal blinker
\* again after the second tick.
BlinkerStep ==
    /\ (last' = "tick" /\ IsBlinker(pre')) =>
          \E r \in 1..(height' - 2), c \in 1..(width' - 2) :
              /\ IsBlinkerAt(pre', r, c)
              /\ AliveSet(cells') = Positions(vertical_list(r, c), width')
    /\ (last = "tick" /\ IsBlinker(pre) /\ last' = "tick") =>
          cells' = pre.cells

C5_BlinkerOscillates == [][BlinkerStep]_vars

\* C6: a 2x2 block on an otherwise Dead grid of width >= 4 and height >= 4
\* is unchanged by tick.
C6_BlockIsStill ==
    (last = "tick" /\ IsBlock(pre)) => cells = pre.cells

\* C7: a grid of width >= 3 and height >= 3 with exactly one Alive cell is
\* all Dead after one tick.
C7_SingleCellDies ==
    (last = "tick" /\ IsSingle(pre)) => AllDead(cells)

\* a tick of a non-square grid whose only Alive cell was counted as its own
\* neighbour, and a tick of a square one
C7_Witness ==
    /\ last = "tick"
    /\ IsSingle(pre)
    /\ width # height
    /\ Len(cells) = width * height
    /\ \E row \in 0..(height - 1), column \in 0..(width - 1) :
          /\ pre.cells[row * width + column + 1] = Alive
          /\ live_neighbour_count(width, height, pre.cells, row, column) = 1

\* C8: set_cells with every coordinate in range makes each named cell
\* (index row * width + column) Alive and leaves every other cell as it was.
C8_SetCellsExact ==
    (last = "set_cells" /\ InRange(arg_list, pre.width, pre.height)) =>
        LET named == NamedIndices(arg_list, pre.width, pre.height)
        IN  /\ ~panicked
            /\ Len(cells) = Len(pre.cells)
            /\ \A i \in 1..Len(cells) :
                  cells[i] = IF (i - 1) \in named THEN Alive ELSE pre.cells[i]

\* two different cells named, one of them Dead before, while another cell
\* that is not named was Alive before
C8_Witness ==
    /\ last = "set_cells"
    /\ InRange(arg_list, pre.width, pre.height)
    /\ Len(arg_list) = 2
    /\ arg_list[1] # arg_list[2]
    /\ \E i \in 1..Len(cells) :
          /\ (i - 1) \in NamedIndices(arg_list, pre.width, pre.height)
          /\ pre.cells[i] = Dead
    /\ \E i \in 1..Len(cells) :
          /\ (i - 1) \notin NamedIndices(arg_list, pre.width, pre.height)
          /\ pre.cells[i] = Alive

\* C9: set_cells with a coordinate row >= height or column >= width is
\* rejected with a signalled failure and sets no cell other than the
\* in-range ones it names.
C9_OutOfRangeRejected ==
    (last = "set_cells" /\ ~InRange(arg_list, pre.width, pre.height)) =>
        /\ panicked
        /\ \A i \in 1..Len(cells) :
              cells[i] # pre.cells[i] =>
                  (i - 1) \in NamedIndices(arg_list, pre.width, pre.height)

\* C10: set_width(0) and set_height(0) fail, and no reachable universe has
\* width 0 or height 0.
C10_ZeroDimensionRejected ==
    /\ (last \in {"set_width", "set_height"} /\ arg_n = 0) => panicked
    /\ width # 0
    /\ height # 0

\* C14: tick always completes: in every reachable state, also after
\* set_width(0) or set_height(0), it returns without a panic (no index out of
\* bounds, no remainder by zero, no overflow) and leaves a generation of the
\* same length.
C14_TickCompletes ==
    last = "tick" =>
        /\ ~panicked
        /\ Len(cells) = pre.width * pre.height

\* a tick of a universe of width 0 and positive height, whose inner loop is
\* empty
C14_Witness ==
    /\ last = "tick"
    /\ ~panicked
    /\ width = 0
    /\ height > 0

\* C16: new() yields width 64, height 64 and 4096 cells, the cell at index i
\* Alive iff i is a multiple of 2 or of 7.
C16_NewIsSeeded ==
    last = "new" =>
        /\ width = 64
        /\ height = 64
        /\ Len(cells) = 4096
        /\ \A i \in 0..4095 :
              cells[i + 1] = IF \E k \in 0..i : i = 2 * k \/ i = 7 * k
                             THEN Alive
                             ELSE Dead

\* the constructed universe: index 7 Alive, index 1 Dead, index 0 Alive
C16_Witness ==
    /\ last = "new"
    /\ cells[8] = Alive
    /\ cells[2] = Dead
    /\ cells[1] = Alive

\* C19: an all-Dead universe of any width and height is all Dead after tick,
\* so it stays all Dead through further ticks.
C19_AllDeadIsAbsorbing ==
    (last = "tick" /\ ~pre_alive) => (~panicked /\ AllDead(cells))

\* the second tick in a row of a non-empty, non-square all-Dead universe
C19_Witness ==
    /\ last = "tick"
    /\ ~pre_alive
    /\ ntick = 2
    /\ Len(cells) > 0
    /\ width # height
    /\ AllDead(cells)

\* C11: on a 1x1 universe live_neighbour_count(0, 0) is 0 whether the cell is
\* Alive or Dead.
C11_OneByOneCountsZero ==
    (width = 1 /\ height = 1 /\ Len(cells) = 1) =>
        live_neighbour_count(width, height, cells, 0, 0) = 0

\* C12: in every universe of width >= 1 and height >= 1, for every cell
\* configuration and valid (row, column), live_neighbour_count is in 0..8.
C12_CountInRange ==
    (width >= 1 /\ height >= 1 /\ Len(cells) = width * height) =>
        \A row \in 0..(height - 1), column \in 0..(width - 1) :
            live_neighbour_count(width, height, cells, row, column) \in 0..8

\* a cell of a non-square universe whose count is 8, and an Alive cell of a
\* universe of width 1 or height 1, where deltas coincide
C12_Witness ==
    /\ width >= 1 /\ height >= 1
    /\ width # height
    /\ Len(cells) = width * height
    /\ Len(cells) <= MaxCells
    /\ \E row \in 0..(height - 1), column \in 0..(width - 1) :
          live_neighbour_count(width, height, cells, row, column) = 8

\* C13: for width >= 1 and height >= 1 the text of render, split at its line
\* feeds, has exactly height lines of exactly width symbols each, top row
\* first, the symbol at line r, column c being the Alive symbol iff
\* cells[r * width + c] is Alive and the Dead symbol otherwise; render
\* changes nothing of the universe.
LineFeeds(text) == {p \in 1..Len(text) : text[p] = Newline}

C13_RenderMatchesCells ==
    (last = "render" /\ width >= 1 /\ height >= 1) =>
        /\ ~panicked
        /\ Universe(width, height, cells) = pre
        /\ Len(out) = height * (width + 1)
        /\ LineFeeds(out) = {(r + 1) * (width + 1) : r \in 0..(height - 1)}
        /\ \A r \in 0..(height - 1), c \in 0..(width - 1) :
              out[r * (width + 1) + c + 1] =
                  IF cells[r * width + c + 1] = Alive THEN AliveSymbol ELSE DeadSymbol

\* the text of a non-square universe with Alive and Dead cells
C13_Witness ==
    /\ last = "render"
    /\ ~panicked
    /\ width > 1 /\ height > 1 /\ width # height
    /\ \E p \in 1..Len(out) : out[p] = AliveSymbol
    /\ \E p \in 1..Len(out) : out[p] = DeadSymbol

\* C17: render runs to completion in every reachable state, also when width
\* is 0 after set_width(0) and height >= 1.
C17_RenderCompletes == last = "render" => ~panicked

\* C18: on a square universe of width = height >= 3 live_neighbour_count
\* equals the number of Alive cells among the 8 toroidal neighbours, for
\* every cell configuration and valid (row, column).
C18_SquareCountIsToroidal ==
    (width = height /\ width >= 3 /\ Len(cells) = width * height) =>
        \A row \in 0..(height - 1), column \in 0..(width - 1) :
            live_neighbour_count(width, height, cells, row, column)
                = ToroidalCount(width, height, cells, row, column)

\* a small square universe in which a cell of the first row counts an Alive
\* cell of the last row
C18_Witness ==
    /\ width = height /\ width >= 3
    /\ Len(cells) = width * height
    /\ Len(cells) <= MaxCells
    /\ \E column \in 0..(width - 1) :
          /\ cells[(height - 1) * width + column + 1] = Alive
          /\ live_neighbour_count(width, height, cells, 0, column) > 0
          /\ \A c \in 0..(width - 1) :
                cells[c + 1] = Dead /\ cells[width + c + 1] = Dead

\* C20: tick and set_cells leave width and height as they were, set_width(w)
\* sets width to w and leaves height, set_height(h) sets height to h and
\* leaves width, and width(), height(), get_cells() and render() change
\* nothing.
C20_DimensionsFrame ==
    /\ last \in {"tick", "set_cells"} =>
          (width = pre.width /\ height = pre.height)
    /\ last = "set_width" => (width = arg_n /\ height = pre.height)
    /\ last = "set_height" => (height = arg_n /\ width = pre.width)
    /\ last \in {"width", "height", "get_cells", "render"} =>
          Universe(width, height, cells) = pre

\* a set_width that changed the width of a universe to one different from
\* its height
C20_Witness ==
    /\ last = "set_width"
    /\ width # pre.width
    /\ width # height
    /\ height = pre.height
    /\ height <= MaxDim
====
